---- MODULE Spec2Model ----
(***************************************************************************)
(* Model of pyCFG (src/src/pyCFG.py): the incremental control-flow-graph   *)
(* builder.  Two ControlFlowGraph instances live in one Python process and *)
(* share the BasicBlock id counter, which is a class-level default_factory *)
(* (count().__next__) evaluated once when the class is defined.            *)
(*                                                                         *)
(* Python list positions and dict keys are 0-based and are kept 0-based in *)
(* the model; the TLA+ sequence holding a list is read at position + 1.    *)
(***************************************************************************)
EXTENDS Integers, Sequences, FiniteSets, TLC

\* ---------------------------------------------------------------- bounds
MaxAddr == 1          \* addresses are drawn from 0..MaxAddr
MaxCalls == 2         \* caller steps in one behaviour of Spec
MaxProcCalls == 3     \* caller steps in one behaviour of SpecProc

Addr == 0..MaxAddr
Graphs == {1, 2}      \* the ControlFlowGraph instances of the process
EntryPoint == 0       \* entry address handed to ControlFlowGraph(...)
None == -1            \* Python's None in an Optional[int] field
Names == {"LOAD", "PUSH"}

\* ---------------------------------------------------------------- records
JMP == "JMP"
JCC_TAKEN == "JCC_TAKEN"
JCC_NOT_TAKEN == "JCC_NOT_TAKEN"
NO_TYPE == "-"
JumpType == {JMP, JCC_TAKEN, JCC_NOT_TAKEN}

\* Instruction(name, operand) and Jump(name, success_address, jump_type,
\* failure_address), held in one record shape; `cls` is the Python class.
Instruction(name, operand) ==
    [cls |-> "Instruction", name |-> name, operand |-> operand,
     success_address |-> None, jump_type |-> NO_TYPE, failure_address |-> None]

Jump(name, success_address, jump_type, failure_address) ==
    [cls |-> "Jump", name |-> name, operand |-> "",
     success_address |-> success_address, jump_type |-> jump_type,
     failure_address |-> failure_address]

\* Jump.__post_init__ without the failure-address test (mutant).
Jump_post_init_NoCheck(given_args) == "ok"

\* Jump.__post_init__: a conditional jump without failure address raises.
\* The isinstance loop accepts every field value the model draws.
Jump_post_init(given_args) ==
    IF given_args.jump_type \in {JCC_NOT_TAKEN, JCC_TAKEN}
          /\ given_args.failure_address = None
    THEN "TypeError"
    ELSE "ok"

\* Argument tuples a caller may hand to the two constructors.
InstructionArgs == {Instruction(n, "1") : n \in Names}
JumpArgs ==
    {Jump("JMP", s, JMP, None) : s \in Addr}
    \cup {Jump("JCC", s, t, f) : s \in Addr, t \in {JCC_TAKEN, JCC_NOT_TAKEN},
                                f \in Addr \cup {None}}

\* The records that exist: those whose construction did not raise.
Records == InstructionArgs \cup {j \in JumpArgs : Jump_post_init(j) = "ok"}

isJump(instruction) == instruction.cls = "Jump"

\* dataclasses.astuple: the field values in declaration order.
astuple(r) ==
    IF r.cls = "Instruction" THEN <<r.name, r.operand>>
    ELSE <<r.name, r.success_address, r.jump_type, r.failure_address>>

\* ---------------------------------------------------------------- dicts
\* A Python dict is a sequence of [k, v] entries in insertion order.
DictKeys(d) == {d[i].k : i \in 1..Len(d)}

DictGet(d, key, default) ==
    IF key \in DictKeys(d)
    THEN (CHOOSE e \in {d[i] : i \in 1..Len(d)} : e.k = key).v
    ELSE default

\* d[key] = value: an existing key keeps its position, a new key is appended.
DictSet(d, key, value) ==
    IF key \in DictKeys(d)
    THEN [i \in 1..Len(d) |-> IF d[i].k = key THEN [k |-> key, v |-> value] ELSE d[i]]
    ELSE Append(d, [k |-> key, v |-> value])

\* ---------------------------------------------------------------- BasicBlock
\* count().__next__ that hands out the same number again (mutant).
count_next_Stuck(counter) == counter

\* count().__next__: the state of the counter after one draw.
count_next(counter) == counter + 1

\* BasicBlock(start): the id is the value drawn from the shared counter.
BasicBlock(start, counter) ==
    [start |-> start, id |-> counter, block |-> <<>>, edges |-> <<>>]

addresses(node) == DictKeys(node.block)

\* add_instruction that keeps the record an address already has (mutant).
add_instruction_KeepFirst(node, addr, instr_or_jmp) ==
    IF addr \in DictKeys(node.block)
    THEN node
    ELSE [node EXCEPT !.block = Append(node.block, [k |-> addr, v |-> astuple(instr_or_jmp)])]

\* add_instruction: self.__block[addr] = astuple(instr_or_jmp), whether or
\* not addr is already a key.
add_instruction(node, addr, instr_or_jmp) ==
    [node EXCEPT !.block = DictSet(node.block, addr, astuple(instr_or_jmp))]

\* add_edge that counts every registration, traversed or not (mutant).
add_edge_CountAll(node, edge, traversed) ==
    [node EXCEPT !.edges = DictSet(node.edges, edge, DictGet(node.edges, edge, 0) + 1)]

\* bool is added as an int: True = 1, False = 0.
add_edge(node, edge, traversed) ==
    [node EXCEPT !.edges =
        DictSet(node.edges, edge,
                DictGet(node.edges, edge, 0) + (IF traversed THEN 1 ELSE 0))]

\* hex(n), for the one-digit numbers the model uses.
hex(n) == "0x" \o ToString(n)

\* __repr__: one line per recorded address, "hex(address) name second\n";
\* the second field goes through hex when it is a number (the success
\* address of a jump) and is printed as it is otherwise (an operand).
repr(node) ==
    [p \in 1..Len(node.block) |->
        LET retrieved == node.block[p].v
        IN  <<hex(node.block[p].k), retrieved[1],
              IF Len(retrieved) = 4 THEN hex(retrieved[2]) ELSE retrieved[2]>>]

\* edge_strings: (i, key, count) for the i-th entry of the edge map.
edge_strings(node) ==
    [p \in 1..Len(node.edges) |->
        [edge_num |-> p - 1, edge_index |-> node.edges[p].k,
         edge_traversals |-> node.edges[p].v]]

\* ---------------------------------------------------------------- ControlFlowGraph
\* A graph value is [nodes, curr]: the list _nodes and the 0-based position
\* in _nodes of the object _curr_node refers to (blocks are never removed,
\* so the reference and the position name the same block).
At(ns, i) == ns[i + 1]

\* __add_node that inserts at the front of the list (mutant).
add_node_Front(ns, node) == <<node>> \o ns

\* __add_node: self._nodes.append(node)
add_node(ns, node) == Append(ns, node)

\* The `nodes` property: reversed(self._nodes).
nodes_prop(ns) == [i \in 1..Len(ns) |-> ns[Len(ns) + 1 - i]]

\* Positions (0-based, as enumerate yields them) of the reversed list whose
\* block starts at start_addr.
Matches(ns, start_addr) ==
    {i \in 0..(Len(ns) - 1) : At(nodes_prop(ns), i).start = start_addr}

Min(S) == CHOOSE x \in S : \A y \in S : x <= y

\* __query_block_or_create that hands back self._nodes[i] for the i it
\* found, instead of the node the loop was looking at (mutant).
query_block_or_create_ByIndex(ns, counter, start_addr) ==
    IF Matches(ns, start_addr) # {}
    THEN LET i == Min(Matches(ns, start_addr))
         IN  [index |-> i, block |-> i, nodes |-> ns, counter |-> counter]
    ELSE [index |-> Len(ns), block |-> Len(ns),
          nodes |-> add_node(ns, BasicBlock(start_addr, counter)),
          counter |-> count_next(counter)]

\* __query_block_or_create that also resolves an address to a block that has
\* recorded it (mutant).
query_block_or_create_Containing(ns, counter, start_addr) ==
    LET found == {i \in 0..(Len(ns) - 1) :
                     \/ At(nodes_prop(ns), i).start = start_addr
                     \/ start_addr \in addresses(At(nodes_prop(ns), i))}
    IN  IF found # {}
        THEN [index |-> Min(found), block |-> Len(ns) - 1 - Min(found),
              nodes |-> ns, counter |-> counter]
        ELSE [index |-> Len(ns), block |-> Len(ns),
              nodes |-> add_node(ns, BasicBlock(start_addr, counter)),
              counter |-> count_next(counter)]

\* __query_block_or_create that takes len(self._nodes) after the append (mutant).
query_block_or_create_LenAfter(ns, counter, start_addr) ==
    IF Matches(ns, start_addr) # {}
    THEN LET i == Min(Matches(ns, start_addr))
         IN  [index |-> i, block |-> Len(ns) - 1 - i, nodes |-> ns, counter |-> counter]
    ELSE [index |-> Len(ns) + 1, block |-> Len(ns),
          nodes |-> add_node(ns, BasicBlock(start_addr, counter)),
          counter |-> count_next(counter)]

\* __query_block_or_create that looks only at the most recent block (mutant).
query_block_or_create_LastOnly(ns, counter, start_addr) ==
    IF At(nodes_prop(ns), 0).start = start_addr
    THEN [index |-> 0, block |-> Len(ns) - 1, nodes |-> ns, counter |-> counter]
    ELSE [index |-> Len(ns), block |-> Len(ns),
          nodes |-> add_node(ns, BasicBlock(start_addr, counter)),
          counter |-> count_next(counter)]

\* __query_block_or_create(start_addr).  `index` is the first element of the
\* returned pair: the enumerate position i in the REVERSED list when a block
\* is found, len(self._nodes) when one is created.  `block` is the position
\* in _nodes of the returned BasicBlock object.
query_block_or_create(ns, counter, start_addr) ==
    IF Matches(ns, start_addr) # {}
    THEN LET i == Min(Matches(ns, start_addr))
         IN  [index |-> i, block |-> Len(ns) - 1 - i, nodes |-> ns, counter |-> counter]
    ELSE [index |-> Len(ns), block |-> Len(ns),
          nodes |-> add_node(ns, BasicBlock(start_addr, counter)),
          counter |-> count_next(counter)]

\* Replace the block at 0-based position i.
SetAt(ns, i, node) == [ns EXCEPT ![i + 1] = node]

\* Lines 107-108 that build the block anew around the recorded step (mutant).
record_step_Rebuild(node, program_counter, instruction) ==
    add_instruction(BasicBlock(node.start, node.id), program_counter, instruction)

\* Lines 107-108 without the membership test (mutant).
record_step_Always(node, program_counter, instruction) ==
    add_instruction(node, program_counter, instruction)

\* Lines 107-108 of execute: record the step unless the address is present.
record_step(node, program_counter, instruction) ==
    IF program_counter \notin addresses(node)
    THEN add_instruction(node, program_counter, instruction)
    ELSE node

\* One arm of a jump: resolve the target, register the edge on the current
\* block (lines 112-113, 116-117, 118-119, 122-123, 124-125).
arm(ns, curr, counter, target, traversed) ==
    LET q == query_block_or_create(ns, counter, target)
    IN  [nodes |-> SetAt(q.nodes, curr, add_edge(At(q.nodes, curr), q.index, traversed)),
         counter |-> q.counter, block |-> q.block]

\* Lines 107-126 of execute, which run once the assert has passed.
execute_body(G, counter, program_counter, instruction) ==
    LET ns0 == SetAt(G.nodes, G.curr,
                     record_step(At(G.nodes, G.curr), program_counter, instruction))
    IN
    IF ~isJump(instruction)
    THEN [nodes |-> ns0, curr |-> G.curr, counter |-> counter, raised |-> "no"]
    ELSE
      IF instruction.jump_type = JMP
      THEN LET a == arm(ns0, G.curr, counter, instruction.success_address, TRUE)
           IN  [nodes |-> a.nodes, curr |-> a.block, counter |-> a.counter,
                raised |-> "no"]
      ELSE IF instruction.jump_type = JCC_TAKEN
      THEN LET f == arm(ns0, G.curr, counter, instruction.failure_address, FALSE)
               s == arm(f.nodes, G.curr, f.counter, instruction.success_address, TRUE)
           IN  [nodes |-> s.nodes, curr |-> s.block, counter |-> s.counter,
                raised |-> "no"]
      ELSE LET f == arm(ns0, G.curr, counter, instruction.failure_address, TRUE)
               s == arm(f.nodes, G.curr, f.counter, instruction.success_address, FALSE)
           IN  [nodes |-> s.nodes, curr |-> f.block, counter |-> s.counter,
                raised |-> "no"]

\* execute whose assert runs after the step was recorded (mutant).
execute_LateAssert(G, counter, program_counter, instruction) ==
    IF ~(program_counter >= At(G.nodes, G.curr).start)
    THEN [nodes |-> SetAt(G.nodes, G.curr,
                          record_step(At(G.nodes, G.curr), program_counter, instruction)),
          curr |-> G.curr, counter |-> counter, raised |-> "AssertionError"]
    ELSE execute_body(G, counter, program_counter, instruction)

\* execute without its assert (mutant).
execute_NoAssert(G, counter, program_counter, instruction) ==
    execute_body(G, counter, program_counter, instruction)

\* execute(program_counter, instruction) on graph G with the shared counter.
\* Result: the graph, the counter, and whether the assert raised; a failed
\* assert (line 106) raises before anything is touched.
execute(G, counter, program_counter, instruction) ==
    IF ~(program_counter >= At(G.nodes, G.curr).start)
    THEN [nodes |-> G.nodes, curr |-> G.curr, counter |-> counter,
          raised |-> "AssertionError"]
    ELSE execute_body(G, counter, program_counter, instruction)

\* The address of the arm a jump record takes.
TakenAddress(instruction) ==
    IF instruction.jump_type = JCC_NOT_TAKEN
    THEN instruction.failure_address
    ELSE instruction.success_address

\* Concatenation of a sequence of sequences.
RECURSIVE Flatten(_)
Flatten(ss) == IF ss = <<>> THEN <<>> ELSE Head(ss) \o Flatten(Tail(ss))

\* The node statement dot() writes for one block.
node_statement(node) ==
    LET instruction_block == repr(node)
        unexplored == instruction_block = <<>>
    IN  [name |-> node.start,
         label |-> IF unexplored THEN <<<<"Unexplored">>>> ELSE instruction_block,
         color |-> IF unexplored THEN "webmaroon" ELSE "gray0"]

\* The edge statements dot() writes for one block.
edge_statements(ns, node) ==
    LET number_of_edges == Len(node.edges)
        es == edge_strings(node)
    IN  [p \in 1..Len(es) |->
            [src |-> node.start,
             dst |-> At(ns, es[p].edge_index).start,
             label |-> es[p].edge_traversals,
             color |-> IF number_of_edges = 1 THEN "blue"
                       ELSE IF number_of_edges = 2 /\ es[p].edge_num = 0 THEN "red"
                       ELSE "green"]]

\* dot() that walks the `nodes` property, most recent block first (mutant).
dot_Reversed(ns) ==
    [nodes |-> [i \in 1..Len(ns) |-> node_statement(nodes_prop(ns)[i])],
     edges |-> Flatten([i \in 1..Len(ns) |-> edge_statements(ns, nodes_prop(ns)[i])])]

\* dot(): the text written to output.dot, as the sequence of node statements
\* followed by the sequence of edge statements; both loops walk self._nodes.
dot(ns) ==
    [nodes |-> [i \in 1..Len(ns) |-> node_statement(ns[i])],
     edges |-> Flatten([i \in 1..Len(ns) |-> edge_statements(ns, ns[i])])]

\* What can happen to one png/pdf request outside the program: the write of
\* output.dot or the start of the shell can raise OSError, and the renderer
\* can exit zero or non-zero.
Environments == {"ok", "nonzero_exit", "open_raises", "write_raises", "run_raises"}

\* png(output_name) / pdf(output_name), lines 143-152, as the outcome of the
\* three statements dot(); subprocess.run(..., shell=True); os.remove(...).
\* subprocess.run is called without check=True: it returns the exit status
\* and raises only if the shell cannot be started.
render(ns, exists, env) ==
    IF env = "open_raises"
    THEN [raised |-> "OSError", exists |-> exists, wrote |-> FALSE, exit |-> None]
    ELSE IF env = "write_raises"
    THEN [raised |-> "OSError", exists |-> TRUE, wrote |-> FALSE, exit |-> None]
    ELSE IF env = "run_raises"
    THEN [raised |-> "OSError", exists |-> TRUE, wrote |-> TRUE, exit |-> None]
    ELSE [raised |-> "no", exists |-> FALSE, wrote |-> TRUE,
          exit |-> IF env = "ok" THEN 0 ELSE 1]

\* ---------------------------------------------------------------- state
VARIABLES
    graphs,      \* graphs[g] = [nodes, curr] of ControlFlowGraph instance g
    id_counter,  \* the itertools.count() behind BasicBlock.__id (process-wide)
    trav,        \* trav[g][a][t]: execute calls made with the cursor on the block
                 \* starting at a that registered address t with traversed=True
    jmps,        \* jmps[g][a][t]: those of them whose record was a JMP
    last,        \* the caller's latest step and how it ended
    ncalls,      \* number of caller steps so far
    dot_exists,  \* whether the file output.dot exists
    dot_text,    \* what the latest completed dot() wrote to output.dot
    exit_code    \* exit status of the latest renderer run, None if it did not run

vars == <<graphs, id_counter, trav, jmps, last, ncalls, dot_exists, dot_text, exit_code>>

NoRecord == Instruction("", "")
NoCall == [op |-> "none", g |-> 0, pc |-> None, rec |-> NoRecord, raised |-> "no"]

Zero == [a \in Addr |-> [t \in Addr |-> 0]]

\* ControlFlowGraph(EntryPoint) for instance 1, then for instance 2: each
\* constructor builds BasicBlock(entry_point) and so draws one id.
Init ==
    /\ graphs = [g \in Graphs |->
                   [nodes |-> <<BasicBlock(EntryPoint,
                                           IF g = 1 THEN 0 ELSE count_next(0))>>,
                    curr |-> 0]]
    /\ id_counter = count_next(count_next(0))
    /\ trav = [g \in Graphs |-> Zero]
    /\ jmps = [g \in Graphs |-> Zero]
    /\ last = NoCall
    /\ ncalls = 0
    /\ dot_exists = FALSE
    /\ dot_text = [nodes |-> <<>>, edges |-> <<>>]
    /\ exit_code = None

\* The caller runs graph g's execute(pc, rec) with an existing record.
Execute(g, pc, rec) ==
    LET G == graphs[g]
        r == execute(G, id_counter, pc, rec)
        a == At(G.nodes, G.curr).start
        t == TakenAddress(rec)
        counted == r.raised = "no" /\ isJump(rec)
    IN  /\ graphs' = [graphs EXCEPT ![g] = [nodes |-> r.nodes, curr |-> r.curr]]
        /\ id_counter' = r.counter
        /\ trav' = IF counted
                   THEN [trav EXCEPT ![g][a][t] = @ + 1]
                   ELSE trav
        /\ jmps' = IF counted /\ rec.jump_type = JMP
                   THEN [jmps EXCEPT ![g][a][t] = @ + 1]
                   ELSE jmps
        /\ last' = [op |-> "execute", g |-> g, pc |-> pc, rec |-> rec,
                    raised |-> r.raised]
        /\ ncalls' = ncalls + 1
        /\ UNCHANGED <<dot_exists, dot_text, exit_code>>

\* The caller evaluates Jump(...) with arguments __post_init__ rejects: the
\* TypeError leaves no record, so no execute call follows.
ConstructRejected(args) ==
    /\ Jump_post_init(args) = "TypeError"
    /\ last' = [op |-> "construct", g |-> 0, pc |-> None, rec |-> args,
                raised |-> "TypeError"]
    /\ ncalls' = ncalls + 1
    /\ UNCHANGED <<graphs, id_counter, trav, jmps, dot_exists, dot_text, exit_code>>

\* A client calls add_instruction(addr, rec) on the block the cursor of
\* graph g is on, without going through execute.
AddInstruction(g, addr, rec) ==
    LET G == graphs[g]
    IN  /\ graphs' = [graphs EXCEPT ![g].nodes =
                        SetAt(G.nodes, G.curr, add_instruction(At(G.nodes, G.curr), addr, rec))]
        /\ last' = [op |-> "add_instruction", g |-> g, pc |-> addr, rec |-> rec,
                    raised |-> "no"]
        /\ ncalls' = ncalls + 1
        /\ UNCHANGED <<id_counter, trav, jmps, dot_exists, dot_text, exit_code>>

\* The caller runs graph g's png(...) or pdf(...) in environment env.
Render(g, fmt, env) ==
    LET r == render(graphs[g].nodes, dot_exists, env)
    IN  /\ dot_exists' = r.exists
        /\ dot_text' = IF r.wrote THEN dot(graphs[g].nodes) ELSE dot_text
        /\ exit_code' = r.exit
        /\ last' = [op |-> fmt, g |-> g, pc |-> None, rec |-> NoRecord,
                    raised |-> r.raised]
        /\ ncalls' = ncalls + 1
        /\ UNCHANGED <<graphs, id_counter, trav, jmps>>

\* One trace producer drives graph 1; graph 2 has only been constructed.
Next ==
    \/ \E pc \in Addr, rec \in Records : ncalls < MaxCalls /\ Execute(1, pc, rec)
    \/ \E args \in JumpArgs : ncalls < MaxCalls /\ ConstructRejected(args)

Spec == Init /\ [][Next]_vars

\* Every graph of the process is driven, in any interleaving.
NextProc ==
    \/ \E g \in Graphs, pc \in Addr, rec \in Records :
          ncalls < MaxProcCalls /\ Execute(g, pc, rec)
    \/ \E args \in JumpArgs : ncalls < MaxProcCalls /\ ConstructRejected(args)

SpecProc == Init /\ [][NextProc]_vars

\* Graph 1 is driven through execute and its cursor block also directly.
NextBlock ==
    \/ \E pc \in Addr, rec \in Records : ncalls < MaxCalls /\ Execute(1, pc, rec)
    \/ \E addr \in Addr, rec \in InstructionArgs :
          ncalls < MaxCalls /\ AddInstruction(1, addr, rec)

SpecBlock == Init /\ [][NextBlock]_vars

\* Graph 1 is driven through execute and rendered at any point.
NextRender ==
    \/ \E pc \in Addr, rec \in Records : ncalls < MaxCalls /\ Execute(1, pc, rec)
    \/ \E fmt \in {"png", "pdf"}, env \in Environments :
          ncalls < MaxCalls /\ Render(1, fmt, env)

SpecRender == Init /\ [][NextRender]_vars

\* ---------------------------------------------------------------- helpers of the claims
Positions(g) == 0..(Len(graphs[g].nodes) - 1)
Block(g, i) == At(graphs[g].nodes, i)
Cursor(g) == Block(g, graphs[g].curr)
Starts(g) == [i \in 1..Len(graphs[g].nodes) |-> graphs[g].nodes[i].start]
Ids(g) == [i \in 1..Len(graphs[g].nodes) |-> graphs[g].nodes[i].id]
Conditional(rec) == isJump(rec) /\ rec.jump_type \in {JCC_TAKEN, JCC_NOT_TAKEN}
\* The latest caller step was an execute call that returned normally.
Executed == last.op = "execute" /\ last.raised = "no"
\* Positions of ns (0-based) holding a block that starts at addr.
PositionsOf(ns, addr) == {i \in 0..(Len(ns) - 1) : At(ns, i).start = addr}

\* ---------------------------------------------------------------- C1
\* C1: for every pair of blocks A, B of a graph, the count A stores under the
\* key that is B's position equals the number of execute calls made with the
\* cursor on A that registered B's start address with traversed=True.
C1_EdgeWeightIsTraversalCount ==
    \A g \in Graphs : \A i \in Positions(g), j \in Positions(g) :
        DictGet(Block(g, i).edges, j, 0) = trav[g][Block(g, i).start][Block(g, j).start]

\* ---------------------------------------------------------------- C2
\* C2: after an execute call with a jump record the cursor is on the block
\* whose start is the taken target: success_address for JMP and JCC_TAKEN,
\* failure_address for JCC_NOT_TAKEN.
C2_CursorFollowsTakenArm ==
    (Executed /\ isJump(last.rec))
        => Cursor(last.g).start = TakenAddress(last.rec)

\* A jump back to the entry block, which existed before the call, issued
\* from another block.
C2_Witness ==
    /\ Executed /\ isJump(last.rec)
    /\ TakenAddress(last.rec) = EntryPoint
    /\ Len(graphs[last.g].nodes) = 2
    /\ graphs[last.g].curr = 0
    /\ \E a \in Addr \ {EntryPoint} : trav[last.g][a][EntryPoint] = 1

\* ---------------------------------------------------------------- C3
\* C3: an execute call with a conditional jump issued from block A leaves a
\* block at failure_address and one at success_address, and A holds an edge
\* entry keyed by each of the two blocks; when the two addresses differ the
\* taken arm's entry grew by exactly 1 and the other arm's entry did not grow.
C3_BothArmsRegistered ==
    [][(last'.op = "execute" /\ last'.raised = "no" /\ Conditional(last'.rec)) =>
        LET g == last'.g
            A == graphs[g].curr
            before == At(graphs[g].nodes, A).edges
            after == At(graphs'[g].nodes, A).edges
            rec == last'.rec
            pf == PositionsOf(graphs'[g].nodes, rec.failure_address)
            ps == PositionsOf(graphs'[g].nodes, rec.success_address)
            taken == IF rec.jump_type = JCC_TAKEN THEN ps ELSE pf
            other == IF rec.jump_type = JCC_TAKEN THEN pf ELSE ps
        IN  /\ pf # {} /\ ps # {}
            /\ \A k \in pf \cup ps : k \in DictKeys(after)
            /\ rec.failure_address # rec.success_address =>
                 /\ \A k \in taken : DictGet(after, k, 0) = DictGet(before, k, 0) + 1
                 /\ \A k \in other : DictGet(after, k, 0) = DictGet(before, k, 0)
      ]_vars

\* ---------------------------------------------------------------- C4
\* C4: once a block has executed a JMP to the same target address twice (and
\* nothing else traversed that pair), exactly one block starts at the target
\* and the source block's entry for that block has count 2.
C4_RepeatedJumpCountsTwo ==
    \A g \in Graphs : \A i \in Positions(g), t \in Addr :
        (jmps[g][Block(g, i).start][t] = 2 /\ trav[g][Block(g, i).start][t] = 2)
            => /\ Cardinality(PositionsOf(graphs[g].nodes, t)) = 1
               /\ \A j \in PositionsOf(graphs[g].nodes, t) :
                     DictGet(Block(g, i).edges, j, 0) = 2

\* ---------------------------------------------------------------- C5
\* C5: the start addresses of the blocks of a graph are pairwise distinct.
C5_DistinctStarts ==
    \A g \in Graphs : \A i \in Positions(g), j \in Positions(g) :
        i # j => Block(g, i).start # Block(g, j).start

\* A conditional jump whose two addresses coincide has run and created one
\* block, not two.
C5_Witness ==
    /\ Executed /\ Conditional(last.rec)
    /\ last.rec.success_address = last.rec.failure_address
    /\ last.rec.success_address # EntryPoint
    /\ Len(graphs[last.g].nodes) = 2

\* ---------------------------------------------------------------- C6
\* C6: no step lowers the number of blocks of a graph, and every block keeps
\* its position and its start address.
C6_BlocksNeverRemoved ==
    [][\A g \in Graphs :
          /\ Len(graphs'[g].nodes) >= Len(graphs[g].nodes)
          /\ \A i \in 1..Len(graphs[g].nodes) :
                graphs'[g].nodes[i].start = graphs[g].nodes[i].start
      ]_vars

\* A block was appended behind the entry block.
C6_Witness ==
    /\ Executed /\ isJump(last.rec)
    /\ Len(graphs[last.g].nodes) = 2
    /\ Block(last.g, 0).start = EntryPoint

\* ---------------------------------------------------------------- C7
\* C7: within one graph the block ids strictly increase in creation order
\* (the order of _nodes), so no id is held by two blocks of the graph.
C7_IdsIncrease ==
    \A g \in Graphs : \A i \in Positions(g), j \in Positions(g) :
        i < j => Block(g, i).id < Block(g, j).id

\* A graph holds a block created by a jump, behind its entry block.
C7_Witness ==
    \E g \in Graphs :
        /\ Len(graphs[g].nodes) = 2
        /\ \E a \in Addr, t \in Addr : trav[g][a][t] > 0

\* ---------------------------------------------------------------- C8
\* C8: the ids of a graph's blocks depend only on the graph's own sequence of
\* block creations: two graphs that created blocks at the same addresses in
\* the same order hold the same ids.
C8_IdsScopedToGraph ==
    \A g \in Graphs, h \in Graphs : Starts(g) = Starts(h) => Ids(g) = Ids(h)

\* ---------------------------------------------------------------- C9
\* C9: Jump(...) with a conditional jump type and no failure address raises
\* and yields no record, Jump(...) with JMP and no failure address succeeds,
\* and no conditional jump without failure address reaches execute.
C9_ConditionalNeedsFailure ==
    /\ \A args \in JumpArgs :
          (Conditional(args) /\ args.failure_address = None)
              => (Jump_post_init(args) = "TypeError" /\ args \notin Records)
    /\ \A args \in JumpArgs :
          (args.jump_type = JMP /\ args.failure_address = None)
              => (Jump_post_init(args) = "ok" /\ args \in Records)
    /\ (last.op = "execute" /\ Conditional(last.rec))
          => last.rec.failure_address # None
    /\ last.op = "construct"
          => (last.raised = "TypeError" /\ Conditional(last.rec)
              /\ last.rec.failure_address = None)

\* A JMP without failure address has executed, and after it a conditional
\* Jump(...) without failure address was rejected.
C9_Witness ==
    /\ last.op = "construct" /\ last.raised = "TypeError"
    /\ \E g \in Graphs, a \in Addr, t \in Addr : jmps[g][a][t] = 1

\* ---------------------------------------------------------------- C10
\* C10: an execute call with a non-jump record at an address the cursor block
\* already holds leaves that block's instruction map as it was, and running
\* any non-jump call a second time changes nothing more.
C10_ReexecuteIsNoOp ==
    [][(last'.op = "execute" /\ last'.raised = "no" /\ ~isJump(last'.rec)) =>
        LET g == last'.g
            again == execute(graphs'[g], id_counter', last'.pc, last'.rec)
        IN  /\ last'.pc \in addresses(Cursor(g))
                => At(graphs'[g].nodes, graphs[g].curr).block = Cursor(g).block
            /\ again.nodes = graphs'[g].nodes
            /\ again.curr = graphs'[g].curr
      ]_vars

\* A non-jump record was executed at an address the cursor block holds with
\* a different record, and the recorded one is still there.
C10_Witness ==
    /\ Executed /\ ~isJump(last.rec)
    /\ last.pc \in addresses(Cursor(last.g))
    /\ DictGet(Cursor(last.g).block, last.pc, <<>>) # astuple(last.rec)

\* ---------------------------------------------------------------- C11
\* C11 as stated: add_instruction(address, record) on an address the block
\* already holds leaves the block's instruction map as it was.
C11_AddInstructionKeepsRecord ==
    [][(last'.op = "add_instruction" /\ last'.pc \in addresses(Cursor(last'.g))) =>
          At(graphs'[last'.g].nodes, graphs[last'.g].curr).block = Cursor(last'.g).block
      ]_vars

\* C11 as amended: add_instruction(address, record) on an address the block
\* already holds stores the new record at that address; the address keeps
\* its place in the map and every other entry, the edges, the start and the
\* id of the block stay as they were.
C11_AddInstructionOverwrites ==
    [][(last'.op = "add_instruction" /\ last'.pc \in addresses(Cursor(last'.g))) =>
        LET before == Cursor(last'.g)
            after == At(graphs'[last'.g].nodes, graphs[last'.g].curr)
        IN  /\ Len(after.block) = Len(before.block)
            /\ \A p \in 1..Len(before.block) :
                  /\ after.block[p].k = before.block[p].k
                  /\ after.block[p].v = IF before.block[p].k = last'.pc
                                        THEN astuple(last'.rec)
                                        ELSE before.block[p].v
            /\ after.edges = before.edges
            /\ after.start = before.start /\ after.id = before.id
      ]_vars

\* add_instruction has been called for the one address the block held, and
\* the block holds the record of that call.
C11_Witness ==
    /\ last.op = "add_instruction"
    /\ ncalls = 2
    /\ Len(Cursor(last.g).block) = 1
    /\ Cursor(last.g).block[1] = [k |-> last.pc, v |-> astuple(last.rec)]

\* ---------------------------------------------------------------- C12
\* C12: an execute call whose address is below the start of the cursor block
\* raises at once and leaves every graph and the id counter as they were,
\* whether the record is a jump or not.
C12_LowAddressRaisesAndKeeps ==
    [][(last'.op = "execute" /\ last'.pc < Cursor(last'.g).start) =>
          /\ last'.raised = "AssertionError"
          /\ graphs' = graphs
          /\ id_counter' = id_counter
      ]_vars

\* A jump record was executed at an address below the cursor block's start.
C12_Witness ==
    /\ last.op = "execute" /\ last.raised = "AssertionError"
    /\ isJump(last.rec)
    /\ last.pc < Cursor(last.g).start

\* ---------------------------------------------------------------- C13
\* C13 as stated: in every block the recorded addresses are in non-decreasing
\* insertion order.
C13_AddressesNonDecreasing ==
    \A g \in Graphs : \A i \in Positions(g) :
        \A p \in 1..Len(Block(g, i).block), q \in 1..Len(Block(g, i).block) :
            p < q => Block(g, i).block[p].k <= Block(g, i).block[q].k

\* C13 as amended: no address recorded in a block is below the block's start.
C13_AddressesNotBelowStart ==
    \A g \in Graphs : \A i \in Positions(g) :
        \A a \in addresses(Block(g, i)) : a >= Block(g, i).start

\* A block that recorded a higher address before a lower one.
C13_Witness ==
    \E g \in Graphs : \E i \in Positions(g) :
        /\ Len(Block(g, i).block) = 2
        /\ Block(g, i).block[1].k > Block(g, i).block[2].k
        /\ Block(g, i).block[2].k >= Block(g, i).start

\* ---------------------------------------------------------------- C14
\* The start addresses named by the node statements of a description.
NodeNames(text) == [i \in 1..Len(text.nodes) |-> text.nodes[i].name]
\* The latest step was a png/pdf request.
Rendered == last.op \in {"png", "pdf"}

\* C14 as stated: for a graph of two or more blocks the node statements come
\* most recently created block first.
C14_NodesMostRecentFirst ==
    (Rendered /\ last.raised = "no" /\ Len(graphs[last.g].nodes) >= 2)
        => NodeNames(dot_text) = nodes_prop(Starts(last.g))

\* C14 as amended: the node statements come in creation order, the order of
\* _nodes, oldest block first.
C14_NodesInCreationOrder ==
    (Rendered /\ last.raised = "no") => NodeNames(dot_text) = Starts(last.g)

\* A graph of two blocks has been rendered.
C14_Witness ==
    /\ Rendered /\ last.raised = "no"
    /\ Len(graphs[last.g].nodes) = 2
    /\ Len(dot_text.nodes) = 2

\* ---------------------------------------------------------------- C15
\* C15: a png/pdf request that starts without output.dot on disk ends
\* without it, however the request ends.
C15_DescriptionFileDeleted ==
    [][(last'.op \in {"png", "pdf"} /\ ~dot_exists) => ~dot_exists']_vars

\* ---------------------------------------------------------------- C16
\* C16: a png/pdf request whose renderer exited non-zero does not return
\* normally.
C16_RendererFailureSurfaced ==
    (Rendered /\ exit_code # None /\ exit_code # 0) => last.raised # "no"

\* ---------------------------------------------------------------- C17
\* No execute call has yet dispatched on a jump in graph g.
NoJumpYet(g) == \A a \in Addr, t \in Addr : trav[g][a][t] = 0

\* C17: an execute call with a non-jump record changes nothing but the
\* instruction map of the cursor block; as long as no jump has run, a graph
\* is its entry block alone, without edges, holding the executed address.
C17_NonJumpTouchesOnlyCursorMap ==
    /\ [][(last'.op = "execute" /\ ~isJump(last'.rec)) =>
            LET g == last'.g
                c == graphs[g].curr
            IN  /\ graphs'[g].curr = c
                /\ Len(graphs'[g].nodes) = Len(graphs[g].nodes)
                /\ id_counter' = id_counter
                /\ \A h \in Graphs \ {g} : graphs'[h] = graphs[h]
                /\ \A i \in Positions(g) :
                      /\ At(graphs'[g].nodes, i).edges = Block(g, i).edges
                      /\ At(graphs'[g].nodes, i).start = Block(g, i).start
                      /\ At(graphs'[g].nodes, i).id = Block(g, i).id
                      /\ i # c => At(graphs'[g].nodes, i).block = Block(g, i).block
         ]_vars
    /\ [](\A g \in Graphs : NoJumpYet(g) =>
            /\ Len(graphs[g].nodes) = 1
            /\ Block(g, 0).start = EntryPoint /\ Block(g, 0).edges = <<>>
            /\ (Executed /\ last.g = g) => last.pc \in addresses(Block(g, 0)))

\* Two non-jump records were executed at two addresses and nothing else.
C17_Witness ==
    /\ Executed /\ ~isJump(last.rec)
    /\ NoJumpYet(last.g)
    /\ Len(Block(last.g, 0).block) = 2

\* ---------------------------------------------------------------- C18
\* C18: a jump to an address that some block has recorded but that no block
\* starts at appends a new, empty block at that address; every block keeps
\* the entries it had, and when the cursor follows that arm the address can
\* be recorded again, in the new block.
C18_NoSplitOnInnerTarget ==
    [][(last'.op = "execute" /\ last'.raised = "no" /\ isJump(last'.rec)) =>
        LET g == last'.g
            rec == last'.rec
            ns == graphs[g].nodes
            ns1 == graphs'[g].nodes
            targets == IF rec.jump_type = JMP
                       THEN {rec.success_address}
                       ELSE {rec.success_address, rec.failure_address}
            again == execute(graphs'[g], id_counter', TakenAddress(rec),
                             Instruction("LOAD", "1"))
        IN  \A t \in targets :
              (PositionsOf(ns, t) = {}
                 /\ \E i \in Positions(g) : t \in addresses(Block(g, i)))
              => /\ \E j \in Len(ns)..(Len(ns1) - 1) :
                       At(ns1, j).start = t /\ At(ns1, j).block = <<>>
                 /\ \A i \in Positions(g) : \A p \in 1..Len(Block(g, i).block) :
                       At(ns1, i).block[p] = Block(g, i).block[p]
                 /\ t = TakenAddress(rec) =>
                       /\ again.raised = "no"
                       /\ Cardinality({i \in 0..(Len(again.nodes) - 1) :
                                         t \in addresses(At(again.nodes, i))}) >= 2
      ]_vars

\* The cursor stands on an empty block created at an address that another
\* block had recorded before the jump.
C18_Witness ==
    /\ Executed /\ isJump(last.rec)
    /\ last.pc # TakenAddress(last.rec)
    /\ Cursor(last.g).start = TakenAddress(last.rec)
    /\ Cursor(last.g).block = <<>>
    /\ \E i \in Positions(last.g) :
          /\ i # graphs[last.g].curr
          /\ TakenAddress(last.rec) \in addresses(Block(last.g, i))

\* ---------------------------------------------------------------- C19
\* C19: every key of every block's edge map is a position of _nodes.
C19_EdgeKeysArePositions ==
    \A g \in Graphs : \A i \in Positions(g) :
        \A k \in DictKeys(Block(g, i).edges) : k \in Positions(g)

\* A block holds two edge entries, one of them stored for a block that the
\* lookup found.
C19_Witness ==
    /\ Executed /\ Conditional(last.rec)
    /\ last.rec.success_address = EntryPoint
    /\ \E i \in Positions(last.g) : Len(Block(last.g, i).edges) = 2

\* ---------------------------------------------------------------- C20
RECURSIVE SumCounts(_)
\* Sum of the counts of an edge map.
SumCounts(edges) ==
    IF edges = <<>> THEN 0 ELSE Head(edges).v + SumCounts(Tail(edges))

RECURSIVE EdgeTotal(_)
\* Sum of all counts of all blocks of a node list.
EdgeTotal(ns) ==
    IF ns = <<>> THEN 0 ELSE SumCounts(Head(ns).edges) + EdgeTotal(Tail(ns))

RECURSIVE SumOver(_, _)
SumOver(f, S) ==
    IF S = {} THEN 0
    ELSE LET x == CHOOSE y \in S : TRUE IN f[x] + SumOver(f, S \ {x})

\* Number of execute calls on graph g that dispatched on a jump record.
JumpCalls(g) ==
    SumOver([p \in Addr \X Addr |-> trav[g][p[1]][p[2]]], Addr \X Addr)

\* C20: the counts of all edges of a graph add up to the number of its
\* execute calls that carried a jump record; a jump call raises the total by
\* exactly 1, any other step by 0, and no count ever decreases.
C20_TotalCountsJumpCalls ==
    /\ [](\A g \in Graphs : EdgeTotal(graphs[g].nodes) = JumpCalls(g))
    /\ [][\A g \in Graphs :
            /\ EdgeTotal(graphs'[g].nodes) =
                  EdgeTotal(graphs[g].nodes)
                  + (IF last'.op = "execute" /\ last'.raised = "no"
                        /\ isJump(last'.rec) /\ last'.g = g
                     THEN 1 ELSE 0)
            /\ \A i \in Positions(g) : \A k \in DictKeys(Block(g, i).edges) :
                  DictGet(At(graphs'[g].nodes, i).edges, k, 0)
                     >= DictGet(Block(g, i).edges, k, 0)
         ]_vars

\* Two jump calls, the later one conditional, so that an arm was registered
\* without being counted.
C20_Witness ==
    /\ Executed /\ Conditional(last.rec)
    /\ EdgeTotal(graphs[last.g].nodes) = 2
    /\ \E i \in Positions(last.g) : \E k \in DictKeys(Block(last.g, i).edges) :
          DictGet(Block(last.g, i).edges, k, 1) = 0

====
